---- MODULE Spec2Model ----
(***************************************************************************)
(* Model of thcovmat/thcovmat.py: the caller supplies a list of raw shift  *)
(* batches, shifts_vec promotes them (numpy views with extra length-1      *)
(* axes) and thcovmat contracts every ordered pair of promoted tensors     *)
(* with einsum and assembles the blocks with np.block.                     *)
(*                                                                         *)
(* Arrays are objects on a heap (arrs).  An array either owns its data     *)
(* (base = 0) or is a view of the array object `base` (numpy's .base), so  *)
(* that object identity (`bi is bj`) and shared memory are part of the     *)
(* state.  Data are integers, stored flat in C order.                      *)
(*                                                                         *)
(* Two further components have a specification each: block_plot of         *)
(* debug/out.py (SpecPlot) and nbym of prescriptions.py (SpecMasks).       *)
(***************************************************************************)
EXTENDS Integers, Sequences, FiniteSets, TLC

VARIABLES arrs, raw, shifts, mat, err, nblocks, pc, runs, prev, rebound, tampers, lastWrite,
          covmat, block_size, blocked, plotErr, plotPc,
          gridShape, prescriptions, maskPc

\* the state of the covariance pipeline, of block_plot and of nbym
coreVars == <<arrs, raw, shifts, mat, err, nblocks, pc, runs, prev, rebound, tampers, lastWrite>>
plotVars == <<covmat, block_size, blocked, plotErr, plotPc>>
maskVars == <<gridShape, prescriptions, maskPc>>

vars == <<coreVars, plotVars, maskVars>>

(* ---- bounds of the model ---- *)
MaxProc == 3
MaxPts == 2
MaxNf == 2
MaxNr == 2
MaxRuns == 2
MaxTamper == 1

(* ---- the reference grid of raw_shifts: size=(batch, 3, 3) ---- *)
GridNf == 3
GridNr == 3

(* ---- helpers on shapes and flat data ---- *)
RECURSIVE Prod(_)
Prod(s) == IF s = <<>> THEN 1 ELSE Head(s) * Prod(Tail(s))

RECURSIVE SumTo(_, _)
\* sum of F[x] for x in 0..d-1
SumTo(F, d) == IF d = 0 THEN 0 ELSE F[d - 1] + SumTo(F, d - 1)

\* C-order stride (in elements) of 0-based axis t of an array of this shape
Stride(shape, t) == Prod(SubSeq(shape, t + 2, Len(shape)))

\* the array object that owns the memory of array object id
Owner(heap, id) == IF heap[id].base = 0 THEN id ELSE heap[id].base

\* the flat data seen through array object id
Data(heap, id) == heap[Owner(heap, id)].data

Shape(heap, id) == heap[id].shape

\* element [a, f, r] of a rank-3 array object
At3(heap, id, a, f, r) ==
    LET s == Shape(heap, id)
    IN Data(heap, id)[1 + a * s[2] * s[3] + f * s[3] + r]

(* ---- batches the caller supplies ---- *)
\* the two kinds of contents: all ones, or every cell of the batch of process
\* k (1-based) different, counting up from k
Kinds == {"ones", "arange"}

Fill(k, size, kind) == [o \in 1..size |-> IF kind = "ones" THEN 1 ELSE k + o - 1]

NewBatch(k, n, nf, nr, kind) ==
    [base |-> 0, shape |-> <<n, nf, nr>>, data |-> Fill(k, n * nf * nr, kind)]

(* ---- shifts_vec ---- *)
RECURSIVE ExpandShape(_, _, _, _)
\* shape = [1 if ax in axis else next(shape_it) for ax in range(out_ndim)]
ExpandShape(shape, axis, ax, outNdim) ==
    IF ax = outNdim THEN <<>>
    ELSE IF ax \in axis
         THEN <<1>> \o ExpandShape(shape, axis, ax + 1, outNdim)
         ELSE <<Head(shape)>> \o ExpandShape(Tail(shape), axis, ax + 1, outNdim)

\* a mutant of ExpandDims: the result is a fresh copy that owns its data
ExpandDimsCopy(heap, id, axis) ==
    [base |-> 0,
     shape |-> ExpandShape(Shape(heap, id), {axis[x] : x \in DOMAIN axis}, 0,
                           Len(axis) + Len(Shape(heap, id))),
     data |-> Data(heap, id)]

\* np.expand_dims(a, axis): a.reshape(shape), a view of a's memory
ExpandDims(heap, id, axis) ==
    [base |-> Owner(heap, id),
     shape |-> ExpandShape(Shape(heap, id), {axis[x] : x \in DOMAIN axis}, 0,
                           Len(axis) + Len(Shape(heap, id))),
     data |-> <<>>]

\* dims = list(np.arange(n) + 2)
Dims(n) == [x \in 1..n |-> (x - 1) + 2]

\* a mutant of NewDims: the axis taken out is counted from the other end
NewDimsMirrored(dims, i) == SelectSeq(dims, LAMBDA d : d # (Len(dims) - 1 - i) + 2)

\* newdims = dims.copy(); newdims.remove(i + 2)
NewDims(dims, i) == SelectSeq(dims, LAMBDA d : d # i + 2)

\* a mutant of Upgraded0: the list of the previous call is still there
Upgraded0Stale == shifts

\* upgraded = []
Upgraded0 == <<>>

\* the array objects shifts_vec creates, in list order
Upgraded(heap, rawList) ==
    [x \in 1..Len(rawList) |->
        ExpandDims(heap, rawList[x], NewDims(Dims(Len(rawList)), x - 1))]

(* ---- thcovmat ---- *)
\* sumdims = list(np.arange(len(shifts) + 1) + 2)
Sumdims(n) == [x \in 1..(n + 1) |-> (x - 1) + 2]

\* np.array(proc_shift.shape[2:]).prod()
Murs(heap, id) == Prod(SubSeq(Shape(heap, id), 3, Len(Shape(heap, id))))

\* a mutant of ScalesAgree: the check left out
ScalesAgreeUnchecked(heap, list) == TRUE

\* all(np.array(proc_shift.shape[2:]).prod() == murs for proc_shift in shifts)
ScalesAgree(heap, list) ==
    \A x \in 1..Len(list) : Murs(heap, list[x]) = Murs(heap, list[1])

\* einsum accepts the operand pair: as many axes as subscripts, and every
\* summed label has equal extents or an extent of 1 on one side
EinsumOk(heap, bi, bj, sumdims) ==
    LET si == Shape(heap, bi)
        sj == Shape(heap, bj)
    IN /\ Len(si) = 1 + Len(sumdims)
       /\ Len(sj) = 1 + Len(sumdims)
       /\ \A t \in 1..Len(sumdims) :
             si[t + 1] = sj[t + 1] \/ si[t + 1] = 1 \/ sj[t + 1] = 1

\* an einsum operand: its flat data, its shape and its C-order strides
Operand(heap, id) ==
    [d |-> Data(heap, id),
     s |-> Shape(heap, id),
     st |-> [t \in 1..Len(Shape(heap, id)) |-> Stride(Shape(heap, id), t - 1)]]

RECURSIVE SumAxisLeftExtent(_, _, _, _, _, _)
\* a mutant of SumAxis: the extent of a label is taken from the first operand
\* alone, so an extent of 1 there is not repeated along the second operand's
SumAxisLeftExtent(A, B, t, x, oi, oj) ==
    IF t > Len(A.s) THEN A.d[oi + 1] * B.d[oj + 1]
    ELSE IF x = A.s[t] THEN 0
    ELSE SumAxisLeftExtent(A, B, t + 1, 0,
                 oi + (IF A.s[t] = 1 THEN 0 ELSE x) * A.st[t],
                 oj + (IF B.s[t] = 1 THEN 0 ELSE x) * B.st[t])
         + SumAxisLeftExtent(A, B, t, x + 1, oi, oj)

RECURSIVE SumAxis(_, _, _, _, _, _)
\* the sum, over the index values x.. of the label of axis t (1-based) and
\* over all values of the labels of the later axes, of the product of the two
\* operands' cells; an extent of 1 is repeated along the other operand's extent
SumAxis(A, B, t, x, oi, oj) ==
    IF t > Len(A.s) THEN A.d[oi + 1] * B.d[oj + 1]
    ELSE IF x = (IF A.s[t] = 1 THEN B.s[t] ELSE A.s[t]) THEN 0
    ELSE SumAxis(A, B, t + 1, 0,
                 oi + (IF A.s[t] = 1 THEN 0 ELSE x) * A.st[t],
                 oj + (IF B.s[t] = 1 THEN 0 ELSE x) * B.st[t])
         + SumAxis(A, B, t, x + 1, oi, oj)

\* np.einsum(bi, [0, *sumdims], bj, [1, *sumdims], [0, 1]): rows of the block
Einsum(heap, bi, bj) ==
    LET A == Operand(heap, bi)
        B == Operand(heap, bj)
    IN [a \in 1..A.s[1] |->
          [b \in 1..B.s[1] |->
              SumAxis(A, B, 2, 0, (a - 1) * A.st[1], (b - 1) * B.st[1])]]

\* a mutant of Degeneracy: the factor on every block
DegeneracyAlways(heap, list, x, y) == Murs(heap, list[1])

\* a mutant of Degeneracy: no compensation on the diagonal
DegeneracyNone(heap, list, x, y) == 1

\* a mutant of Degeneracy: one factor per foreign axis
DegeneracyForeign(heap, list, x, y) ==
    IF list[x] = list[y]
    THEN Prod([z \in 1..(Len(list) - 1) |-> Murs(heap, list[1])])
    ELSE 1

\* degeneracy = murs if bi is bj else 1.0
Degeneracy(heap, list, x, y) ==
    IF list[x] = list[y] THEN Murs(heap, list[1]) ELSE 1

Scaled(block, c) == [a \in DOMAIN block |-> [b \in DOMAIN block[a] |-> block[a][b] * c]]

\* np.einsum(...) * degeneracy for the pair at list positions x, y
BlockAt(heap, list, x, y) ==
    Scaled(Einsum(heap, list[x], list[y]), Degeneracy(heap, list, x, y))

RECURSIVE ConcatAll(_)
ConcatAll(ss) == IF ss = <<>> THEN <<>> ELSE Head(ss) \o ConcatAll(Tail(ss))

\* one block row of np.block: the blocks side by side
HStack(blockrow) ==
    [a \in 1..Len(blockrow[1]) |->
        ConcatAll([y \in 1..Len(blockrow) |-> blockrow[y][a]])]

\* np.block(blockmat): block rows one under the other
Block(blockmat) == ConcatAll([x \in 1..Len(blockmat) |-> HStack(blockmat[x])])

\* a mutant of Blockmat: a process with a single point is passed over
BlockmatSkipSingle(heap, list) ==
    LET kept == SelectSeq(list, LAMBDA id : Shape(heap, id)[1] > 1)
    IN [x \in 1..Len(kept) |-> [y \in 1..Len(kept) |-> BlockAt(heap, kept, x, y)]]

\* blockmat after the two loops over shifts
Blockmat(heap, list) ==
    [x \in 1..Len(list) |-> [y \in 1..Len(list) |-> BlockAt(heap, list, x, y)]]

\* the pairs (bi, bj) in loop order, and how many of them einsum accepts
\* before the first one it rejects
Pairs(list) == [z \in 1..(Len(list) * Len(list)) |->
                   <<list[((z - 1) \div Len(list)) + 1], list[((z - 1) % Len(list)) + 1]>>]

RECURSIVE Accepted(_, _, _, _)
Accepted(heap, pairs, sumdims, z) ==
    IF z > Len(pairs) THEN 0
    ELSE IF EinsumOk(heap, pairs[z][1], pairs[z][2], sumdims)
         THEN 1 + Accepted(heap, pairs, sumdims, z + 1)
         ELSE 0

(* ---- state ---- *)
None == <<>>

\* no earlier run of the pipeline
NoRun == [pc |-> "none", mat |-> None, raw |-> <<>>, rebound |-> FALSE]

RawContents == [x \in 1..Len(raw) |-> [shape |-> Shape(arrs, raw[x]), data |-> Data(arrs, raw[x])]]

Init ==
    /\ arrs = <<>>
    /\ raw = <<>>
    /\ shifts = <<>>
    /\ mat = None
    /\ err = "none"
    /\ nblocks = 0
    /\ pc = "start"
    /\ runs = 0
    /\ prev = NoRun
    /\ rebound = FALSE
    /\ tampers = 0
    /\ lastWrite = None
    /\ covmat = None
    /\ block_size = 0
    /\ blocked = None
    /\ plotErr = "none"
    /\ plotPc = "idle"
    /\ gridShape = None
    /\ prescriptions = <<>>
    /\ maskPc = "idle"

\* the caller builds one batch per process, each with contents of its own:
\* the point counts are free, the extent nr is shared, but for at most one
\* process (odd), which has nr + 1
SupplyRaw ==
    /\ pc = "start"
    /\ \E P \in 1..MaxProc, nf \in 1..MaxNf, nr \in 1..MaxNr :
         \E pts \in [1..P -> 1..MaxPts], odd \in 0..P :
            /\ arrs' = [k \in 1..P |->
                          NewBatch(k, pts[k], nf, IF k = odd THEN nr + 1 ELSE nr, "arange")]
            /\ raw' = [k \in 1..P |-> k]
    /\ pc' = "raw"
    /\ UNCHANGED <<shifts, mat, err, nblocks, runs, prev, rebound, tampers, lastWrite>>
    /\ UNCHANGED <<plotVars, maskVars>>

\* the caller supplies the same batch object for every process
SupplyAliased ==
    /\ pc = "start"
    /\ \E P \in 2..MaxProc, nf \in 1..MaxNf, kind \in Kinds,
          n \in 1..MaxPts, nr \in 1..MaxNr :
            /\ arrs' = <<NewBatch(1, n, nf, nr, kind)>>
            /\ raw' = [k \in 1..P |-> 1]
    /\ pc' = "raw"
    /\ UNCHANGED <<shifts, mat, err, nblocks, runs, prev, rebound, tampers, lastWrite>>
    /\ UNCHANGED <<plotVars, maskVars>>

\* the minimal example: point counts (2, 3) on the 3 x 3 grid, all ones
SupplyExample ==
    /\ pc = "start"
    /\ arrs' = <<NewBatch(1, 2, GridNf, GridNr, "ones"), NewBatch(2, 3, GridNf, GridNr, "ones")>>
    /\ raw' = <<1, 2>>
    /\ pc' = "raw"
    /\ UNCHANGED <<shifts, mat, err, nblocks, runs, prev, rebound, tampers, lastWrite>>
    /\ UNCHANGED <<plotVars, maskVars>>

\* shifts = shifts_vec(raw); a call after a finished run starts the next run
ShiftsVec ==
    /\ pc \in {"raw", "done", "raised"}
    /\ runs < MaxRuns
    /\ LET up == Upgraded(arrs, raw)
       IN /\ arrs' = arrs \o up
          /\ shifts' = Upgraded0 \o [x \in 1..Len(up) |-> Len(arrs) + x]
    /\ prev' = IF pc = "raw" THEN NoRun
               ELSE [pc |-> pc, mat |-> mat, raw |-> RawContents, rebound |-> rebound]
    /\ runs' = runs + 1
    /\ rebound' = FALSE
    /\ pc' = "promoted"
    /\ UNCHANGED <<raw, mat, err, nblocks, tampers, lastWrite>>
    /\ UNCHANGED <<plotVars, maskVars>>

\* the caller puts the tensor of one list position at the next position too
Rebind ==
    /\ pc = "promoted"
    /\ tampers < MaxTamper
    /\ \E x \in 1..(Len(shifts) - 1) :
          shifts' = [shifts EXCEPT ![x + 1] = shifts[x]]
    /\ rebound' = TRUE
    /\ tampers' = tampers + 1
    /\ UNCHANGED <<arrs, raw, mat, err, nblocks, pc, runs, prev, lastWrite>>
    /\ UNCHANGED <<plotVars, maskVars>>

\* the caller writes 0 to the first cell of a tensor shifts_vec returned
WriteView ==
    /\ pc = "promoted"
    /\ tampers < MaxTamper
    /\ \E x \in 1..Len(shifts) :
          /\ arrs' = [arrs EXCEPT ![Owner(arrs, shifts[x])].data[1] = 0]
          /\ lastWrite' = <<shifts[x], 1>>
    /\ tampers' = tampers + 1
    /\ UNCHANGED <<raw, shifts, mat, err, nblocks, pc, runs, prev, rebound>>
    /\ UNCHANGED <<plotVars, maskVars>>

\* mat = thcovmat(shifts)
Thcovmat ==
    /\ pc = "promoted"
    /\ IF ~ScalesAgree(arrs, shifts)
       THEN /\ err' = "ValueError"
            /\ nblocks' = 0
            /\ mat' = None
            /\ pc' = "raised"
       ELSE LET ok == Accepted(arrs, Pairs(shifts), Sumdims(Len(shifts)), 1)
            IN IF ok < Len(shifts) * Len(shifts)
               THEN /\ err' = "ValueError"
                    /\ nblocks' = ok
                    /\ mat' = None
                    /\ pc' = "raised"
               ELSE /\ err' = "none"
                    /\ nblocks' = ok
                    /\ mat' = Block(Blockmat(arrs, shifts))
                    /\ pc' = "done"
    /\ UNCHANGED <<arrs, raw, shifts, runs, prev, rebound, tampers, lastWrite>>
    /\ UNCHANGED <<plotVars, maskVars>>

\* the pipeline, run on the batches supplied
Next ==
    \/ SupplyRaw
    \/ SupplyAliased
    \/ SupplyExample
    \/ ShiftsVec
    \/ Thcovmat

Spec == Init /\ [][Next]_vars

\* one run of the pipeline with a caller that also touches the list and the
\* tensors shifts_vec returned
NextCaller ==
    \/ SupplyAliased
    \/ SupplyExample
    \/ (pc = "raw" /\ ShiftsVec)
    \/ Rebind
    \/ WriteView
    \/ Thcovmat

SpecCaller == Init /\ [][NextCaller]_vars

(* ---- what the claims speak about ---- *)
NProc == Len(raw)

\* shape of the raw batch of process k (1-based)
Pts(k) == Shape(arrs, raw[k])[1]
Nf(k) == Shape(arrs, raw[k])[2]
Nr(k) == Shape(arrs, raw[k])[3]

\* cumulative sum of the point counts before process k, and their total
RawOffset(k) == SumTo([u \in 0..(k - 2) |-> Pts(u + 1)], k - 1)
NTotal == RawOffset(NProc + 1)

\* the same for the tensors in the list handed to thcovmat
ShiftOffset(k) == SumTo([u \in 0..(k - 2) |-> Shape(arrs, shifts[u + 1])[1]], k - 1)

\* sum over f, r, r' of raw_i[a, f, r] * raw_j[b, f, r']
RefCross(i, j, a, b) ==
    SumTo([f \in 0..(Nf(i) - 1) |->
        SumTo([r \in 0..(Nr(i) - 1) |->
            SumTo([q \in 0..(Nr(j) - 1) |->
                At3(arrs, raw[i], a, f, r) * At3(arrs, raw[j], b, f, q)], Nr(j))],
            Nr(i))], Nf(i))

\* sum over f, r of raw_i[a, f, r] * raw_i[b, f, r]
RefSelf(i, a, b) ==
    SumTo([f \in 0..(Nf(i) - 1) |->
        SumTo([r \in 0..(Nr(i) - 1) |->
            At3(arrs, raw[i], a, f, r) * At3(arrs, raw[i], b, f, r)], Nr(i))], Nf(i))

RECURSIVE Pow(_, _)
Pow(x, e) == IF e = 0 THEN 1 ELSE x * Pow(x, e - 1)

\* thcovmat has returned a matrix for the list shifts_vec returned
PipelineDone == pc = "done" /\ ~rebound

\* the scenario of the minimal example: point counts (2, 3), nf = nr = 3, all ones
IsExample ==
    /\ NProc = 2
    /\ Shape(arrs, raw[1]) = <<2, GridNf, GridNr>>
    /\ Shape(arrs, raw[2]) = <<3, GridNf, GridNr>>
    /\ \A k \in 1..2 : \A o \in DOMAIN Data(arrs, raw[k]) : Data(arrs, raw[k])[o] = 1

\* the block slot (row range of which process) a row or column index falls in
SlotsOf(x) == {k \in 1..NProc : RawOffset(k) < x /\ x <= RawOffset(k) + Pts(k)}

(* C1: for P >= 2 batches promoted by shifts_vec, the sub-block of the      *)
(* output at the row range of process i and the column range of process j,  *)
(* i # j, has entry [a,b] = sum over f, r, r' of raw_i[a,f,r]*raw_j[b,f,r'] *)
(* with no correction factor, and every cell lies in exactly one block.     *)
C1_OffDiagonalBlocks ==
    (PipelineDone /\ NProc >= 2) =>
        /\ \A i \in 1..NProc, j \in 1..NProc :
              i # j =>
                \A a \in 0..(Pts(i) - 1), b \in 0..(Pts(j) - 1) :
                    mat[RawOffset(i) + a + 1][RawOffset(j) + b + 1] = RefCross(i, j, a, b)
        /\ \A x \in 1..Len(mat) :
              /\ Cardinality(SlotsOf(x)) = 1
              /\ \A y \in 1..Len(mat[x]) : Cardinality(SlotsOf(y)) = 1

C1_Witness ==
    /\ PipelineDone
    /\ NProc = 2
    /\ Pts(1) = 1 /\ Pts(2) = 2
    /\ mat[1][2] = RefCross(1, 2, 0, 0)
    /\ mat[1][2] # mat[1][3]
    /\ Nr(1) = 2 /\ Nf(1) = 2
    /\ At3(arrs, raw[1], 0, 0, 0) # At3(arrs, raw[1], 0, 0, 1)

(* C2: for P >= 1, the diagonal sub-block (i,i) has entry                   *)
(* [a,b] = nr * sum over f, r of raw_i[a,f,r]*raw_i[b,f,r]: one factor of   *)
(* the shared extent nr (27 per cell for all-ones batches, nf = nr = 3).    *)
C2_DiagonalBlocks ==
    PipelineDone =>
        /\ \A i \in 1..NProc :
              \A a \in 0..(Pts(i) - 1), b \in 0..(Pts(i) - 1) :
                  mat[RawOffset(i) + a + 1][RawOffset(i) + b + 1] = Nr(i) * RefSelf(i, a, b)
        /\ IsExample =>
              \A i \in 1..NProc :
                  \A a \in 1..Pts(i), b \in 1..Pts(i) :
                      mat[RawOffset(i) + a][RawOffset(i) + b] = 27

C2_Witness ==
    /\ PipelineDone
    /\ NProc = 1
    /\ Pts(1) = 2 /\ Nr(1) = 2 /\ Nf(1) = 2
    /\ mat[1][2] = 2 * RefSelf(1, 0, 1)
    /\ RefSelf(1, 0, 1) > 0

(* C3: for every non-empty sequence of positive point counts the matrix     *)
(* thcovmat(shifts_vec(raw)) is square, (N, N) with N the sum of the n_k;   *)
(* a single-point process does not raise and has a 1 x n_j block for all j. *)
C3_SquareShape ==
    /\ PipelineDone =>
          /\ Len(mat) = NTotal
          /\ \A x \in 1..Len(mat) : Len(mat[x]) = NTotal
          /\ \A i \in 1..NProc :
                Pts(i) = 1 =>
                    /\ {x \in 1..Len(mat) : i \in SlotsOf(x)} = {RawOffset(i) + 1}
                    /\ \A j \in 1..NProc :
                          Cardinality({y \in 1..Len(mat[RawOffset(i) + 1]) : j \in SlotsOf(y)})
                              = Pts(j)
    /\ (pc = "raised" /\ ~rebound) => \E k \in 1..NProc : Nr(k) # Nr(1)

C3_Witness ==
    /\ PipelineDone
    /\ NProc = 3
    /\ Pts(1) = 2 /\ Pts(2) = 1 /\ Pts(3) = 2
    /\ Len(mat) = 5
    /\ Len(mat[3]) = 5

(* C4: block (i,j) of the matrix thcovmat returns is the transpose of block *)
(* (j,i) for all i # j, the diagonal blocks are symmetric, and so the whole *)
(* matrix is symmetric.                                                     *)
C4_Symmetric ==
    pc = "done" =>
        /\ \A i \in 1..Len(shifts), j \in 1..Len(shifts) :
              \A a \in 1..Shape(arrs, shifts[i])[1], b \in 1..Shape(arrs, shifts[j])[1] :
                  mat[ShiftOffset(i) + a][ShiftOffset(j) + b]
                      = mat[ShiftOffset(j) + b][ShiftOffset(i) + a]
        /\ \A x \in 1..Len(mat) : \A y \in 1..Len(mat) : mat[x][y] = mat[y][x]

C4_Witness ==
    /\ PipelineDone
    /\ NProc = 2
    /\ Pts(1) = 1 /\ Pts(2) = 2
    /\ Nr(1) = 2
    /\ mat[1][2] # mat[1][3]
    /\ mat[2][1] = mat[1][2] /\ mat[3][1] = mat[1][3]

(* C5: when the promoted tensors do not all share the same renormalization  *)
(* extent, thcovmat raises ValueError before any block contraction and      *)
(* returns no matrix; when all extents are equal no error is raised.        *)
C5_ScaleMismatchRaises ==
    (pc \in {"done", "raised"} /\ ~rebound) =>
        IF \E k \in 1..NProc : Nr(k) # Nr(1)
        THEN pc = "raised" /\ err = "ValueError" /\ nblocks = 0 /\ mat = None
        ELSE pc = "done" /\ err = "none" /\ mat # None

C5_Witness ==
    /\ pc = "raised"
    /\ ~rebound
    /\ NProc = 3
    /\ Nr(1) = 2 /\ Nr(2) = 2 /\ Nr(3) = 3
    /\ nblocks = 0
    /\ mat = None


(* C6 as stated: in the minimal example (point counts (2,3), nf = nr = 3,   *)
(* all-ones batches) the off-diagonal 2x3 and 3x2 blocks of                 *)
(* thcovmat(shifts_vec(raw)) equal 9 in every cell.                         *)
C6_ExampleOffDiagonalNine ==
    (PipelineDone /\ IsExample) =>
        /\ Len(mat) = 5
        /\ \A a \in 1..2, b \in 3..5 : mat[a][b] = 9 /\ mat[b][a] = 9

(* C6 amended: in the minimal example the off-diagonal 2x3 and 3x2 blocks   *)
(* equal 27 = nf * nr * nr in every cell (the factorization axis is summed  *)
(* too), the same value as the cells of the diagonal blocks.                *)
C6_ExampleOffDiagonal ==
    (PipelineDone /\ IsExample) =>
        /\ Len(mat) = 5
        /\ \A a \in 1..2, b \in 3..5 :
              /\ mat[a][b] = GridNf * GridNr * GridNr
              /\ mat[b][a] = GridNf * GridNr * GridNr
              /\ mat[a][b] = mat[a][a]
              /\ mat[b][a] = 27

C6_Witness ==
    /\ PipelineDone
    /\ IsExample
    /\ mat[1][3] = 27
    /\ mat[5][2] = 27

\* a diagonal block is c times the self-contraction of its batch
DiagonalFactorIs(i, c) ==
    \A a \in 0..(Pts(i) - 1), b \in 0..(Pts(i) - 1) :
        mat[RawOffset(i) + a + 1][RawOffset(i) + b + 1] = c * RefSelf(i, a, b)

(* C7 as stated: the degeneracy factor of diagonal block (i,i) among P      *)
(* processes is nr^(P-1), nr to the number of foreign renormalization axes. *)
C7_FactorPerForeignAxis ==
    PipelineDone => \A i \in 1..NProc : DiagonalFactorIs(i, Pow(Nr(i), NProc - 1))

(* C7 amended: the degeneracy factor of diagonal block (i,i) is the single  *)
(* factor nr whatever the number P of processes: it equals nr^(P-1) for     *)
(* P = 2 (or nr = 1) and differs from it for every other P when nr > 1.     *)
C7_SingleFactor ==
    PipelineDone =>
        \A i \in 1..NProc :
            /\ DiagonalFactorIs(i, Nr(i))
            /\ Degeneracy(arrs, shifts, i, i) = Nr(i)
            /\ (Degeneracy(arrs, shifts, i, i) = Pow(Nr(i), NProc - 1))
                  <=> (NProc = 2 \/ Nr(i) = 1)

C7_Witness ==
    /\ PipelineDone
    /\ NProc = 3
    /\ Nr(1) = 2
    /\ mat[1][1] = 2 * RefSelf(1, 0, 0)
    /\ mat[1][1] # Pow(2, NProc - 1) * RefSelf(1, 0, 0)

\* the shape (n_k, nf, 1, ..., nr, ..., 1) of rank P + 2, nr at axis k + 2
\* (0-based axis of the 1-based process k: k + 1)
PromotedShape(k) ==
    [x \in 1..(NProc + 2) |->
        IF x = 1 THEN Pts(k)
        ELSE IF x = 2 THEN Nf(k)
        ELSE IF x = k + 2 THEN Nr(k)
        ELSE 1]

(* C8: shifts_vec returns P tensors in list order; tensor k has rank P + 2  *)
(* and shape (n_k, nf, 1, .., nr, .., 1) with nr at axis k + 2 (0-based k)  *)
(* and 1 elsewhere in 2..P+1; promoted_k[a,f,0,..,r,..,0] = raw_k[a,f,r];   *)
(* any two promoted tensors are broadcast-compatible on the non-point axes. *)
C8_PromotedShapes ==
    (pc \in {"promoted", "done", "raised"} /\ ~rebound) =>
        /\ Len(shifts) = NProc
        /\ \A k \in 1..NProc :
              LET s == Shape(arrs, shifts[k])
              IN /\ Len(s) = NProc + 2
                 /\ s = PromotedShape(k)
                 /\ \A a \in 0..(Pts(k) - 1), f \in 0..(Nf(k) - 1), r \in 0..(Nr(k) - 1) :
                       Data(arrs, shifts[k])[1 + a * Stride(s, 0) + f * Stride(s, 1)
                                               + r * Stride(s, k + 1)]
                           = At3(arrs, raw[k], a, f, r)
        /\ \A k \in 1..NProc, l \in 1..NProc :
              \A x \in 2..(NProc + 2) :
                  \/ Shape(arrs, shifts[k])[x] = Shape(arrs, shifts[l])[x]
                  \/ Shape(arrs, shifts[k])[x] = 1
                  \/ Shape(arrs, shifts[l])[x] = 1

C8_Witness ==
    /\ pc = "promoted"
    /\ ~rebound
    /\ NProc = 3
    /\ Shape(arrs, raw[1]) = <<1, 2, 2>>
    /\ Shape(arrs, raw[2]) = <<2, 2, 2>>
    /\ Shape(arrs, shifts[1]) = <<1, 2, 2, 1, 1>>
    /\ Shape(arrs, shifts[2]) = <<2, 2, 1, 2, 1>>
    /\ Data(arrs, shifts[2])[8] = At3(arrs, raw[2], 1, 1, 1)

(* C9: running shifts_vec then thcovmat twice on the same raw batches gives *)
(* identical outcomes: the result depends on the contents of the raw        *)
(* batches only, not on hidden state or on the earlier call.                *)
C9_SameInputSameOutput ==
    (/\ pc \in {"done", "raised"}
     /\ prev.pc # "none"
     /\ ~rebound /\ ~prev.rebound
     /\ prev.raw = RawContents) =>
        /\ pc = prev.pc
        /\ mat = prev.mat

C9_Witness ==
    /\ pc = "done"
    /\ prev.pc = "done"
    /\ ~rebound /\ ~prev.rebound
    /\ prev.raw = RawContents
    /\ NProc = 2
    /\ Len(mat) = 3
    /\ mat = prev.mat
    /\ runs = 2


\* what the caller sees through the tensors of the list handed to thcovmat
ShiftContents ==
    [x \in 1..Len(shifts) |-> [shape |-> Shape(arrs, shifts[x]), data |-> Data(arrs, shifts[x])]]

ShiftsVecStep == pc \in {"raw", "done", "raised"} /\ pc' = "promoted"
ThcovmatStep == pc = "promoted" /\ pc' \in {"done", "raised"}
WriteStep == lastWrite' # lastWrite

\* shifts_vec leaves raw and the raw batches alone and returns array objects
\* that did not exist before; thcovmat leaves shifts and the tensors alone
CallsLeaveInputsAlone ==
    /\ ShiftsVecStep =>
          /\ raw' = raw
          /\ RawContents' = RawContents
          /\ \A x \in 1..Len(shifts') : shifts'[x] > Len(arrs)
          /\ \A x \in 1..Len(arrs) : arrs'[x] = arrs[x]
    /\ ThcovmatStep =>
          /\ shifts' = shifts
          /\ ShiftContents' = ShiftContents
          /\ raw' = raw
          /\ RawContents' = RawContents

(* C10 as stated: no batch is mutated after creation: shifts_vec leaves raw *)
(* and every raw batch unchanged, thcovmat leaves shifts and every promoted *)
(* tensor unchanged, each returns new tensors, and a later write to a       *)
(* tensor returned by shifts_vec does not change the raw batch it was made  *)
(* from.                                                                    *)
C10_WriteLeavesRawAlone ==
    [][CallsLeaveInputsAlone /\ (WriteStep => RawContents' = RawContents)]_vars

(* C10 amended: shifts_vec leaves raw and every raw batch unchanged and     *)
(* thcovmat leaves shifts and every promoted tensor unchanged; shifts_vec   *)
(* returns new array objects, but each is a view of the memory of the raw   *)
(* batch at the same list position, so a later write to a tensor returned   *)
(* by shifts_vec does change the raw batch it was made from.                *)
C10_ViewsShareRawMemory ==
    /\ [][/\ CallsLeaveInputsAlone
          /\ ShiftsVecStep =>
                \A x \in 1..Len(raw) :
                    /\ Owner(arrs', shifts'[x]) = Owner(arrs, raw[x])
                    /\ Data(arrs', shifts'[x]) = Data(arrs, raw[x])
          /\ WriteStep =>
                \E x \in 1..Len(raw) :
                    /\ Owner(arrs, lastWrite'[1]) = raw[x]
                    /\ Data(arrs', raw[x])[lastWrite'[2]] = 0
                    /\ Data(arrs, raw[x])[lastWrite'[2]] # 0 => RawContents' # RawContents]_vars
    /\ [](lastWrite # None =>
            \E x \in 1..Len(raw) :
                /\ Owner(arrs, lastWrite[1]) = raw[x]
                /\ Data(arrs, raw[x])[lastWrite[2]] = 0)

C10_Witness ==
    /\ lastWrite # None
    /\ pc = "done"
    /\ NProc = 2
    /\ raw[1] # raw[2]
    /\ lastWrite[1] = shifts[2]
    /\ lastWrite[2] = 1
    /\ At3(arrs, raw[2], 0, 0, 0) = 0
    /\ Data(arrs, raw[1])[1] # 0

(***************************************************************************)
(* debug/out.py: block_plot coarse-grains a matrix before drawing it.      *)
(* A matrix is a sequence of rows; blocked is what is handed to the        *)
(* heatmap.                                                                *)
(***************************************************************************)
(* ---- bound of the model: largest extent of a matrix and block size ---- *)
MaxDim == 5

\* the matrix the caller hands over: rows x cols, every cell different
NewCovmat(rows, cols) == [x \in 1..rows |-> [y \in 1..cols |-> 1 + (x - 1) * cols + (y - 1)]]

\* indices = np.arange(dim - 1)[::n]
Indices(dim, n) == [k \in 1..((dim - 1 + n - 1) \div n) |-> (k - 1) * n]

\* where slice k of np.add.reduceat ends along an axis of extent len: at the
\* next index, the last slice at the end of the axis
SliceEnd(indices, k, len) == IF k < Len(indices) THEN indices[k + 1] ELSE len

\* np.add.reduceat(m, indices): sums of the slices of rows
ReduceatRows(m, indices) ==
    [k \in 1..Len(indices) |->
        [y \in 1..Len(m[1]) |->
            SumTo([x \in 0..(SliceEnd(indices, k, Len(m)) - indices[k] - 1) |->
                      m[indices[k] + x + 1][y]],
                  SliceEnd(indices, k, Len(m)) - indices[k])]]

\* np.add.reduceat(m, indices, axis=1): sums of the slices of columns
ReduceatCols(m, indices, cols) ==
    [x \in 1..Len(m) |->
        [k \in 1..Len(indices) |->
            SumTo([y \in 0..(SliceEnd(indices, k, cols) - indices[k] - 1) |->
                      m[x][indices[k] + y + 1]],
                  SliceEnd(indices, k, cols) - indices[k])]]

\* blocked[:-1, :-1]
DropLast(b) == [x \in 1..(Len(b) - 1) |-> SubSeq(b[x], 1, Len(b[x]) - 1)]

\* the caller has a matrix and a block size
SupplyCovmat ==
    /\ plotPc = "idle"
    /\ \E rows \in 1..MaxDim, cols \in 1..MaxDim, n \in 1..MaxDim :
          /\ covmat' = NewCovmat(rows, cols)
          /\ block_size' = n
    /\ plotPc' = "given"
    /\ UNCHANGED <<blocked, plotErr>>
    /\ UNCHANGED <<coreVars, maskVars>>

\* block_plot(covmat, block_size), up to the call of the heatmap
BlockPlot ==
    /\ plotPc = "given"
    /\ IF Len(covmat) # Len(covmat[1])
       THEN /\ plotErr' = "AssertionError"
            /\ blocked' = None
            /\ plotPc' = "raised"
       ELSE LET dim == Len(covmat)
                n == block_size
                indices == Indices(dim, n)
            IN IF indices = <<>>
               THEN \* last = indices[-1] of an empty array
                    /\ plotErr' = "IndexError"
                    /\ blocked' = None
                    /\ plotPc' = "raised"
               ELSE LET b == ReduceatCols(ReduceatRows(covmat, indices), indices, dim)
                        last == indices[Len(indices)]
                    IN /\ blocked' = IF last # dim - n THEN DropLast(b) ELSE b
                       /\ plotErr' = "none"
                       /\ plotPc' = "plotted"
    /\ UNCHANGED <<covmat, block_size>>
    /\ UNCHANGED <<coreVars, maskVars>>

NextPlot ==
    \/ SupplyCovmat
    \/ BlockPlot

SpecPlot == Init /\ [][NextPlot]_vars

\* the sum of covmat[a*n:(a+1)*n, b*n:(b+1)*n], a and b counted from 0
BlockSum(a, b, n) ==
    SumTo([x \in 0..(n - 1) |->
              SumTo([y \in 0..(n - 1) |-> covmat[a * n + x + 1][b * n + y + 1]], n)], n)

PlotCalled == plotPc \in {"plotted", "raised"}
IsSquare == Len(covmat) = Len(covmat[1])

(* C11 as stated: for a square dim x dim matrix and 1 <= n <= dim,          *)
(* block_plot's coarse-graining yields a floor(dim/n) x floor(dim/n) matrix *)
(* whose entry (a,b) is the sum of covmat[a*n:(a+1)*n, b*n:(b+1)*n]: only   *)
(* the incomplete trailing block is dropped, every complete block is kept;  *)
(* a non-square input fails the assertion before anything is computed.      *)
C11_CompleteBlocksKept ==
    PlotCalled =>
        IF ~IsSquare
        THEN plotPc = "raised" /\ plotErr = "AssertionError" /\ blocked = None
        ELSE block_size <= Len(covmat) =>
                /\ plotPc = "plotted"
                /\ Len(blocked) = Len(covmat) \div block_size
                /\ \A a \in 1..Len(blocked) :
                      /\ Len(blocked[a]) = Len(covmat) \div block_size
                      /\ \A b \in 1..Len(blocked[a]) :
                            blocked[a][b] = BlockSum(a - 1, b - 1, block_size)

(* C11, what block_plot does: a non-square input fails the assertion; a     *)
(* 1 x 1 matrix ends in an IndexError; for dim >= 2 every entry handed to   *)
(* the heatmap is the sum of a complete n x n block, and the side is        *)
(* floor(dim/n) exactly when n >= 2 and dim mod n # 1: with dim mod n = 1   *)
(* the last complete block goes with the leftover (side floor(dim/n) - 1),  *)
(* with n = 1 the last two rows and columns go (side dim - 2).              *)
C11_LastCompleteBlockLost ==
    PlotCalled =>
        IF ~IsSquare
        THEN plotPc = "raised" /\ plotErr = "AssertionError" /\ blocked = None
        ELSE IF Len(covmat) = 1
        THEN plotPc = "raised" /\ plotErr = "IndexError" /\ blocked = None
        ELSE LET dim == Len(covmat)
                 n == block_size
             IN /\ plotPc = "plotted"
                /\ \A a \in 1..Len(blocked) :
                      /\ Len(blocked[a]) = Len(blocked)
                      /\ \A b \in 1..Len(blocked) : blocked[a][b] = BlockSum(a - 1, b - 1, n)
                /\ Len(blocked) =
                      IF n >= 2 /\ dim % n # 1 THEN dim \div n
                      ELSE IF n = 1 THEN dim - 2
                      ELSE (dim \div n) - 1

\* a 5 x 5 matrix in blocks of 2: one of the two complete blocks is left
C11_Witness ==
    /\ plotPc = "plotted"
    /\ IsSquare
    /\ Len(covmat) = 5
    /\ block_size = 2
    /\ Len(covmat) \div block_size = 2
    /\ Len(blocked) = 1
    /\ blocked[1][1] = BlockSum(0, 0, 2)

(***************************************************************************)
(* prescriptions.py: nbym(n, m) builds the dictionary of the named masks.  *)
(* A mask is a function of the 0-based indices [f][r]; a Prescription is a *)
(* record of its mask, its name and its central point (f0, r0).            *)
(***************************************************************************)
(* ---- bound of the model: largest extent of the grid of nbym ---- *)
MaxGrid == 4

Min(a, b) == IF a <= b THEN a ELSE b

\* np.zeros(shape), np.ones(shape)
Zeros(shape) == [f \in 0..(shape[1] - 1) |-> [r \in 0..(shape[2] - 1) |-> 0]]
Ones(shape) == [f \in 0..(shape[1] - 1) |-> [r \in 0..(shape[2] - 1) |-> 1]]

\* mask.shape
MaskShape(mask) == <<Cardinality(DOMAIN mask), Cardinality(DOMAIN mask[0])>>

\* a mutant of NullifyCentral: the central value is left as it is
NullifyCentralSkipped(prescr) == prescr

\* self.mask[self.f0, self.r0] = 0
NullifyCentral(prescr) == [prescr EXCEPT !.mask[prescr.f0][prescr.r0] = 0]

\* cls(mask, name=name, f0=None, r0=None): the dataclass's __init__, then
\* __post_init__ sets f0, r0 to mask.shape[i] // 2 and nullifies the centre
NewPrescription(mask, name) ==
    NullifyCentral([mask |-> mask,
                    name |-> name,
                    f0 |-> MaskShape(mask)[1] \div 2,
                    r0 |-> MaskShape(mask)[2] \div 2])

\* a basic-slicing view of a mask: vr rows and vc columns, its cell [i, j]
\* being the mask's cell [row0 + step * i, col0 + j]
View(row0, step, vr, col0, vc) ==
    [row0 |-> row0, step |-> step, vr |-> vr, col0 |-> col0, vc |-> vc]

\* np.fill_diagonal(view, 1): the cells [i, i] of the view, written through
\* to the mask
FillDiagonal(mask, view) ==
    LET cells == {<<view.row0 + view.step * i, view.col0 + i>> :
                     i \in 0..(Min(view.vr, view.vc) - 1)}
    IN [f \in DOMAIN mask |->
          [r \in DOMAIN mask[f] |-> IF <<f, r>> \in cells THEN 1 ELSE mask[f][r]]]

\* np.logical_or(a, b) * 1.0
LogicalOr(a, b) ==
    [f \in DOMAIN a |-> [r \in DOMAIN a[f] |-> IF a[f][r] # 0 \/ b[f][r] # 0 THEN 1 ELSE 0]]

\* Prescription.ren: prescr.mask[prescr.f0] = 1
Ren(shape) ==
    LET prescr == NewPrescription(Zeros(shape), "Renormalization only")
    IN NullifyCentral([prescr EXCEPT !.mask[prescr.f0] = [r \in DOMAIN prescr.mask[prescr.f0] |-> 1]])

\* Prescription.fact: prescr.mask[:, prescr.r0] = 1
Fact(shape) ==
    LET prescr == NewPrescription(Zeros(shape), "Factorization only")
    IN NullifyCentral([prescr EXCEPT !.mask =
           [f \in DOMAIN prescr.mask |-> [prescr.mask[f] EXCEPT ![prescr.r0] = 1]]])

\* Prescription.sum: np.fill_diagonal(prescr.mask, 1)
Sum(shape) ==
    LET prescr == NewPrescription(Zeros(shape), "Fully correlated")
    IN NullifyCentral([prescr EXCEPT !.mask =
           FillDiagonal(prescr.mask, View(0, 1, shape[1], 0, shape[2]))])

\* Prescription.antisum: np.fill_diagonal(prescr.mask[::-1], 1)
Antisum(shape) ==
    LET prescr == NewPrescription(Zeros(shape), "Fully anti-correlated")
    IN NullifyCentral([prescr EXCEPT !.mask =
           FillDiagonal(prescr.mask, View(shape[1] - 1, -1, shape[1], 0, shape[2]))])

\* Prescription.christ
Christ(shape) ==
    LET el1 == Ren(shape)
        el2 == Fact(shape)
    IN NewPrescription(LogicalOr(el1.mask, el2.mask), "Christ")

\* Prescription.standrews
Standrews(shape) ==
    LET el1 == Sum(shape)
        el2 == Antisum(shape)
    IN NewPrescription(LogicalOr(el1.mask, el2.mask), "St Andrews")

\* Prescription.tridiag: the diagonals of mask, mask[1:] and mask[:, 1:]
Tridiag(shape) ==
    LET prescr == NewPrescription(Zeros(shape), "Tridiagonal")
        m1 == FillDiagonal(prescr.mask, View(0, 1, shape[1], 0, shape[2]))
        m2 == FillDiagonal(m1, View(1, 1, shape[1] - 1, 0, shape[2]))
        m3 == FillDiagonal(m2, View(0, 1, shape[1], 1, shape[2] - 1))
    IN NullifyCentral([prescr EXCEPT !.mask = m3])

\* Prescription.antitridiag: the diagonals of mask[::-1], mask[::-1, 1:] and
\* mask[-2::-1, :]
Antitridiag(shape) ==
    LET prescr == NewPrescription(Zeros(shape), "Anti-tridiagonal")
        m1 == FillDiagonal(prescr.mask, View(shape[1] - 1, -1, shape[1], 0, shape[2]))
        m2 == FillDiagonal(m1, View(shape[1] - 1, -1, shape[1], 1, shape[2] - 1))
        m3 == FillDiagonal(m2, View(shape[1] - 2, -1, shape[1] - 1, 0, shape[2]))
    IN NullifyCentral([prescr EXCEPT !.mask = m3])

\* Prescription.incoherent
Incoherent(shape) == NewPrescription(Ones(shape), "Fully incoherent")

\* the property m: np.sum(self.mask)
M(prescr) ==
    LET shape == MaskShape(prescr.mask)
    IN SumTo([f \in 0..(shape[1] - 1) |->
                 SumTo([r \in 0..(shape[2] - 1) |-> prescr.mask[f][r]], shape[2])],
             shape[1])

\* nbym(n, m): m defaults to n; prescriptions = {}
CallNbym ==
    /\ maskPc = "idle"
    /\ \E n \in 1..MaxGrid, given \in BOOLEAN, mArg \in 1..MaxGrid :
          gridShape' = <<n, IF given THEN mArg ELSE n>>
    /\ prescriptions' = <<>>
    /\ maskPc' = "3"
    /\ UNCHANGED <<coreVars, plotVars>>

\* prescriptions[key] = prescr, and on to the next line of nbym
Store(key, prescr, next) ==
    /\ maskPc = key
    /\ prescriptions' = (key :> prescr) @@ prescriptions
    /\ maskPc' = next
    /\ UNCHANGED gridShape
    /\ UNCHANGED <<coreVars, plotVars>>

StoreRen == Store("3", Ren(gridShape), "3b")
StoreFact == Store("3b", Fact(gridShape), "3c")
StoreSum == Store("3c", Sum(gridShape), "3cb")
StoreAntisum == Store("3cb", Antisum(gridShape), "5")
StoreChrist == Store("5", Christ(gridShape), "5b")
StoreStandrews == Store("5b", Standrews(gridShape), "7")
StoreTridiag == Store("7", Tridiag(gridShape), "7b")
StoreAntitridiag == Store("7b", Antitridiag(gridShape), "9")
StoreIncoherent == Store("9", Incoherent(gridShape), "returned")

NextMasks ==
    \/ CallNbym
    \/ StoreRen
    \/ StoreFact
    \/ StoreSum
    \/ StoreAntisum
    \/ StoreChrist
    \/ StoreStandrews
    \/ StoreTridiag
    \/ StoreAntitridiag
    \/ StoreIncoherent

SpecMasks == Init /\ [][NextMasks]_vars

\* the k of the k-point prescription a key names
PointsOf(key) ==
    CASE key \in {"3", "3b", "3c", "3cb"} -> 3
      [] key \in {"5", "5b"} -> 5
      [] key \in {"7", "7b"} -> 7
      [] key = "9" -> 9

AllKeys == {"3", "3b", "3c", "3cb", "5", "5b", "7", "7b", "9"}

\* a 3 x 3 mask as its three rows
Rows3(mask) == [f \in 1..3 |-> [r \in 1..3 |-> mask[f - 1][r - 1]]]

BlockFactorIs(x, y, c) ==
    \A a \in 1..Shape(arrs, shifts[x])[1], b \in 1..Shape(arrs, shifts[y])[1] :
        mat[ShiftOffset(x) + a][ShiftOffset(y) + b]
            = c * Einsum(arrs, shifts[x], shifts[y])[a][b]

\* the shared extent nr of the list thcovmat was given
SharedNr == Murs(arrs, shifts[1])

(* C13 as stated: thcovmat decides the degeneracy factor by list position   *)
(* only: for every list it accepts, block (i,j) is multiplied by nr exactly *)
(* when i = j and every block with i # j gets factor 1, also when the       *)
(* tensors at positions i and j are the same object or have equal contents. *)
C13_FactorByPosition ==
    pc = "done" =>
        \A x \in 1..Len(shifts), y \in 1..Len(shifts) :
            BlockFactorIs(x, y, IF x = y THEN SharedNr ELSE 1)

(* C13, what thcovmat does: the factor follows object identity (bi is bj):  *)
(* block (i,j) is multiplied by nr exactly when positions i and j hold the  *)
(* same tensor object, so an off-diagonal block of a list that repeats an   *)
(* object is multiplied by nr too; the tensors shifts_vec returns are       *)
(* pairwise distinct objects, also for one batch supplied for every         *)
(* process, and for them the factor is nr on the diagonal and 1 elsewhere.  *)
C13_FactorByIdentity ==
    /\ pc = "done" =>
          \A x \in 1..Len(shifts), y \in 1..Len(shifts) :
              BlockFactorIs(x, y, IF shifts[x] = shifts[y] THEN SharedNr ELSE 1)
    /\ (pc \in {"promoted", "done"} /\ ~rebound) =>
          \A x \in 1..Len(shifts), y \in 1..Len(shifts) :
              (shifts[x] = shifts[y]) <=> (x = y)
    /\ (pc = "done" /\ rebound) => \E x \in 1..(Len(shifts) - 1) : shifts[x] = shifts[x + 1]

\* the list <<t, t>>: the off-diagonal block carries the factor nr = 2
C13_Witness ==
    /\ pc = "done"
    /\ rebound
    /\ Len(shifts) = 2
    /\ shifts[1] = shifts[2]
    /\ SharedNr = 2
    /\ Einsum(arrs, shifts[1], shifts[2])[1][1] > 0
    /\ mat[1][ShiftOffset(2) + 1] = 2 * Einsum(arrs, shifts[1], shifts[2])[1][1]

====
